---------------------------- MODULE Spec2Model ----------------------------
(***************************************************************************)
(* A model of the action dispatcher (src/tools.py, class Tools) and of the *)
(* evidence validator (src/reporter.py, class Reporter).                   *)
(*                                                                         *)
(* Texts are sequences of one-character strings, so that strip, prefix,    *)
(* substring, slicing and concatenation are computed as Python computes    *)
(* them.  A Python value that is not a str (None, True) is a one-element   *)
(* tuple holding a token that is no character.                             *)
(***************************************************************************)
EXTENDS Integers, Sequences, FiniteSets, TLC

(***************************************************************************)
(* Bounds of the model.                                                    *)
(***************************************************************************)
\* the longest script text is a concatenation of MaxPieces pieces
MaxPieces == 3
\* the longest captured output is OutputCap + MaxExtra characters
MaxExtra == 2
\* the longest interpreter code text is a concatenation of MaxCodePieces pieces
MaxCodePieces == 2

(***************************************************************************)
(* Literal texts of src/tools.py.                                          *)
(***************************************************************************)
T_SAFE_MODE == <<"S","A","F","E","_","M","O","D","E",":">>
T_click_disabled == T_SAFE_MODE \o <<" ","c","l","i","c","k"," ","d","i","s","a","b","l","e","d">>
T_fill_disabled == T_SAFE_MODE \o <<" ","f","i","l","l"," ","d","i","s","a","b","l","e","d">>
T_submit_disabled == T_SAFE_MODE \o <<" ","s","u","b","m","i","t"," ","d","i","s","a","b","l","e","d">>
T_python_disabled == T_SAFE_MODE \o <<" ","p","y","t","h","o","n","_","i","n","t","e","r","p","r","e","t","e","r"," ","d","i","s","a","b","l","e","d">>
T_JS_ERROR == <<"J","S","_","E","R","R","O","R",":"," ">>
T_CLICK_ERROR == <<"C","L","I","C","K","_","E","R","R","O","R",":"," ">>
T_FILL_ERROR == <<"F","I","L","L","_","E","R","R","O","R",":"," ">>
T_SUBMIT_ERROR == <<"S","U","B","M","I","T","_","E","R","R","O","R",":"," ">>
T_GOTO_ERROR == <<"G","O","T","O","_","E","R","R","O","R",":"," ">>
T_REFRESH_ERROR == <<"R","E","F","R","E","S","H","_","E","R","R","O","R",":"," ">>
T_PYTHON_ERROR == <<"P","Y","T","H","O","N","_","E","R","R","O","R",":"," ">>
T_DISCOVER_FORMS_ERROR == <<"D","I","S","C","O","V","E","R","_","F","O","R","M","S","_","E","R","R","O","R",":"," ">>
T_Error_executing_tool == <<"E","r","r","o","r"," ","e","x","e","c","u","t","i","n","g"," ","t","o","o","l",":"," ">>
T_playwright_refusal == T_PYTHON_ERROR \o <<"P","l","a","y","w","r","i","g","h","t"," ","l","a","u","n","c","h"," ","i","s"," ","n","o","t"," ","a","l","l","o","w","e","d"," ","f","r","o","m"," ","p","y","t","h","o","n","_","i","n","t","e","r","p","r","e","t","e","r","."," ","U","s","e"," ","e","x","i","s","t","i","n","g"," ","p","a","g","e"," ","c","o","n","t","e","x","t",".">>
T_truncated == <<".",".","."," ","[","t","r","u","n","c","a","t","e","d","]">>
T_Completed == <<"C","o","m","p","l","e","t","e","d">>
T_Input_done == <<"I","n","p","u","t"," ","d","o","n","e","!">>
T_Authentication_done == <<"A","u","t","h","e","n","t","i","c","a","t","i","o","n"," ","d","o","n","e","!">>
T_return_sp == <<"r","e","t","u","r","n"," ">>
T_return == <<"r","e","t","u","r","n">>
T_arrow == <<"(",")"," ","=",">">>
T_paren_arrow == <<"(","(",")"," ","=",">">>
T_function == <<"f","u","n","c","t","i","o","n">>
T_arrow_sp == <<"(",")"," ","=",">"," ">>

\* the forbidden list of python_interpreter, in the order of the source
forbidden == << <<"s","y","n","c","_","p","l","a","y","w","r","i","g","h","t","(">>,
                <<"a","s","y","n","c","_","p","l","a","y","w","r","i","g","h","t","(">>,
                <<"f","r","o","m"," ","p","l","a","y","w","r","i","g","h","t">>,
                <<"i","m","p","o","r","t"," ","p","l","a","y","w","r","i","g","h","t">> >>

\* the cap of the captured output: len(output) > 4000, output[:4000]
OutputCap == 4000

\* the default of _with_retries' keyword argument retries
DefaultRetries == 2

(***************************************************************************)
(* Python values that are not str.                                         *)
(***************************************************************************)
NoneValue == <<"None">>
TrueValue == <<"True">>
FalseValue == <<"False">>
NonStrValues == {NoneValue, TrueValue, FalseValue}

\* isinstance(v, str)
isinstance_str(v) == v \notin NonStrValues

\* bool as a Python value
PyBool(b) == IF b THEN TrueValue ELSE FalseValue

(***************************************************************************)
(* str methods.                                                            *)
(***************************************************************************)
\* the characters str.strip() removes, among those the model's texts use
Whitespace == {" ", "\t", "\n", "\r"}

RECURSIVE lstrip(_)
lstrip(s) == IF s # <<>> /\ Head(s) \in Whitespace THEN lstrip(Tail(s)) ELSE s

RECURSIVE rstrip(_)
rstrip(s) == IF s # <<>> /\ s[Len(s)] \in Whitespace
             THEN rstrip(SubSeq(s, 1, Len(s) - 1))
             ELSE s

\* s.strip()
strip(s) == rstrip(lstrip(s))

\* s.startswith(p)
startswith(s, p) == Len(s) >= Len(p) /\ SubSeq(s, 1, Len(p)) = p

\* f in s
contains(s, f) == \E i \in 0..(Len(s) - Len(f)) : SubSeq(s, i + 1, i + Len(f)) = f

\* s[n:]
slice_from(s, n) == SubSeq(s, n + 1, Len(s))

\* s[:n]
slice_to(s, n) == SubSeq(s, 1, IF n < Len(s) THEN n ELSE Len(s))

(***************************************************************************)
(* Tools._wrap_js_for_playwright                                           *)
(***************************************************************************)
\* a plausible slip: the text is returned as given instead of trimmed
wrap_js_untrimmed(code) ==
    IF ~isinstance_str(code) THEN code
    ELSE LET stripped == strip(code) IN
         IF startswith(stripped, T_paren_arrow) \/ startswith(stripped, T_arrow)
            \/ startswith(stripped, T_function)
         THEN code
         ELSE IF startswith(stripped, T_return_sp)
              THEN LET expr == slice_from(stripped, Len(T_return_sp)) IN T_arrow_sp \o expr
              ELSE code

\* a plausible slip: the text is always wrapped, callable or not
wrap_js_always(code) ==
    IF ~isinstance_str(code) THEN code
    ELSE LET stripped == strip(code) IN
         IF startswith(stripped, T_return_sp)
         THEN T_arrow_sp \o slice_from(stripped, Len(T_return_sp))
         ELSE T_arrow_sp \o stripped

_wrap_js_for_playwright(code) ==
    IF ~isinstance_str(code) THEN code
    ELSE LET stripped == strip(code) IN
         IF startswith(stripped, T_paren_arrow) \/ startswith(stripped, T_arrow)
            \/ startswith(stripped, T_function)
         THEN stripped
         ELSE IF startswith(stripped, T_return_sp)
              THEN LET expr == slice_from(stripped, Len(T_return_sp)) IN T_arrow_sp \o expr
              ELSE stripped


(***************************************************************************)
(* The browsing context (external).  A call on it succeeds or raises; the  *)
(* k-th call attempt of one operation raises iff fate[k].  The message of  *)
(* the exception raised by attempt k names the attempt.                    *)
(***************************************************************************)
Digits == <<"1","2","3","4","5","6","7","8","9">>

\* str(e) of the exception the k-th call attempt raises
ErrMsg(k) == <<"e", Digits[k]>>

\* what page.inner_html("html") returns
HTML == <<"<","h","t","m","l",">">>

\* what page.evaluate returns
EVAL_RESULT == <<"4","2">>

\* the calls of the browsing context that change the state of the target
MutatingCalls == {"click", "fill", "locator.click", "keyboard.press"}

\* one direct call of a method of the browsing context: the attempt after k
page_call(func, fate, k) ==
    IF fate[k + 1]
    THEN [ok |-> FALSE, err |-> ErrMsg(k + 1), calls |-> <<func>>, k |-> k + 1]
    ELSE [ok |-> TRUE, err |-> <<>>, calls |-> <<func>>, k |-> k + 1]

(***************************************************************************)
(* Tools._with_retries: the loop over range(retries + 1).  left is the     *)
(* number of iterations still to run, last_err the error kept so far.      *)
(***************************************************************************)
\* what the k-th call attempt returns when it does not raise
ResultOf(k) == <<"r", Digits[k]>>

RECURSIVE retry_loop(_, _, _, _, _, _)
retry_loop(func, left, fate, k, last_err, calls) ==
    IF left <= 0
    THEN [ok |-> FALSE, err |-> last_err, val |-> NoneValue, calls |-> calls, k |-> k]
    ELSE IF fate[k + 1]
         THEN retry_loop(func, left - 1, fate, k + 1, ErrMsg(k + 1), Append(calls, func))
         ELSE [ok |-> TRUE, err |-> <<>>, val |-> ResultOf(k + 1),
               calls |-> Append(calls, func), k |-> k + 1]

\* a plausible slip: range(retries) instead of range(retries + 1)
with_retries_one_short(func, retries, fate, k) ==
    retry_loop(func, retries, fate, k, NoneValue, <<>>)

_with_retries(func, retries, fate, k) ==
    retry_loop(func, retries + 1, fate, k, NoneValue, <<>>)

(***************************************************************************)
(* The body of a try block that makes calls on the browsing context one    *)
(* after the other: a step is a retried call or a direct one; the first    *)
(* step that raises ends the block.                                        *)
(***************************************************************************)
Retried(func) == [func |-> func, retried |-> TRUE]
Direct(func) == [func |-> func, retried |-> FALSE]

RECURSIVE run_steps(_, _, _, _)
run_steps(steps, fate, k, calls) ==
    IF steps = <<>>
    THEN [ok |-> TRUE, err |-> <<>>, calls |-> calls, k |-> k]
    ELSE LET r == IF Head(steps).retried
                  THEN _with_retries(Head(steps).func, DefaultRetries, fate, k)
                  ELSE page_call(Head(steps).func, fate, k)
         IN IF r.ok
            THEN run_steps(Tail(steps), fate, r.k, calls \o r.calls)
            ELSE [ok |-> FALSE, err |-> r.err, calls |-> calls \o r.calls, k |-> r.k]

\* the outcome of an operation: a returned value or a raised exception, the
\* calls made on the browsing context, whether exec ran, and sys.stdout after it
\* (sent: the script handed to page.evaluate; executed: "no", or how exec(code)
\* ended, "returned" or "raised"; captured: what the code printed; redirected:
\* sys.stdout is left pointing at the buffer)
Returns(v, calls) ==
    [raised |-> FALSE, val |-> v, calls |-> calls, sent |-> NoneValue,
     executed |-> "no", captured |-> <<>>, redirected |-> FALSE]
Raises(msg, calls) ==
    [raised |-> TRUE, val |-> msg, calls |-> calls, sent |-> NoneValue,
     executed |-> "no", captured |-> <<>>, redirected |-> FALSE]

\* try: <steps>; return <value> / except Exception as e: return f"<TAG>: {e}"
try_steps(steps, fate, value, tag) ==
    LET r == run_steps(steps, fate, 0, <<>>) IN
    IF r.ok THEN Returns(value, r.calls) ELSE Returns(tag \o r.err, r.calls)

(***************************************************************************)
(* The operations of Tools.  self_safe is self.safe.                       *)
(***************************************************************************)
execute_js(self_safe, js_code, fate) ==
    LET code == _wrap_js_for_playwright(js_code) IN
    [try_steps(<<Direct("evaluate")>>, fate, EVAL_RESULT, T_JS_ERROR) EXCEPT !.sent = code]

\* a plausible slip: the action is not preceded by the wait for the selector
click_unwaited(self_safe, fate) ==
    IF self_safe THEN Returns(T_click_disabled, <<>>)
    ELSE try_steps(<<Retried("click"), Direct("inner_html")>>, fate, HTML, T_CLICK_ERROR)

click(self_safe, fate) ==
    IF self_safe THEN Returns(T_click_disabled, <<>>)
    ELSE try_steps(<<Retried("wait_for_selector"), Retried("click"), Direct("inner_html")>>,
                   fate, HTML, T_CLICK_ERROR)

fill(self_safe, fate) ==
    IF self_safe THEN Returns(T_fill_disabled, <<>>)
    ELSE try_steps(<<Retried("wait_for_selector"), Retried("fill"), Direct("inner_html")>>,
                   fate, HTML, T_FILL_ERROR)

\* page.locator(css_selector) is evaluated once, before _with_retries is entered
submit(self_safe, fate) ==
    IF self_safe THEN Returns(T_submit_disabled, <<>>)
    ELSE try_steps(<<Retried("wait_for_selector"), Direct("locator"),
                     Retried("locator.click"), Direct("inner_html")>>,
                   fate, HTML, T_SUBMIT_ERROR)

\* no safe-mode test and no try block
presskey(self_safe, fate) ==
    LET r == run_steps(<<Direct("keyboard.press"), Direct("inner_html")>>, fate, 0, <<>>) IN
    IF r.ok THEN Returns(HTML, r.calls) ELSE Raises(r.err, r.calls)

goto(self_safe, fate) ==
    try_steps(<<Retried("goto"), Direct("inner_html")>>, fate, HTML, T_GOTO_ERROR)

refresh(self_safe, fate) ==
    try_steps(<<Retried("reload"), Direct("inner_html")>>, fate, HTML, T_REFRESH_ERROR)

discover_forms(self_safe, fate) ==
    try_steps(<<Direct("evaluate")>>, fate, EVAL_RESULT, T_DISCOVER_FORMS_ERROR)

complete == Returns(T_Completed, <<>>)

\* input(prompt) returns, or raises EOFError when standard input is closed
get_user_input(eof) ==
    IF eof THEN Raises(<<"E","O","F">>, <<>>) ELSE Returns(T_Input_done, <<>>)

auth_needed(eof) ==
    IF eof THEN Raises(<<"E","O","F">>, <<>>) ELSE Returns(T_Authentication_done, <<>>)

(***************************************************************************)
(* Tools.python_interpreter.  page says whether a browsing context was     *)
(* supplied.  beh is what executing the code does: it prints beh.out and   *)
(* then returns, or raises an Exception whose message is beh.err.          *)
(***************************************************************************)
\* a plausible slip: only the first entry of the list is tested
any_forbidden_first_only(code) == contains(code, forbidden[1])

\* any(f in code for f in forbidden)
any_forbidden(code) == \E i \in 1..Len(forbidden) : contains(code, forbidden[i])

\* a plausible slip: the comparison is >= instead of >
cap_output_ge(output) ==
    IF Len(output) >= OutputCap THEN slice_to(output, OutputCap) \o T_truncated ELSE output

\* if len(output) > 4000: output = output[:4000] + "... [truncated]"
cap_output(output) ==
    IF Len(output) > OutputCap THEN slice_to(output, OutputCap) \o T_truncated ELSE output

\* the try block around exec, with sys.stdout restored in its finally clause
exec_guarded(code, beh, calls) ==
    IF beh.raises
    THEN [Returns(T_PYTHON_ERROR \o beh.err, calls) EXCEPT !.executed = "raised",
                                                            !.captured = beh.out]
    ELSE [Returns(cap_output(beh.out), calls) EXCEPT !.executed = "returned",
                                                     !.captured = beh.out]

python_interpreter(self_safe, code, page, fate, beh) ==
    IF self_safe THEN Returns(T_python_disabled, <<>>)
    ELSE IF any_forbidden(code) THEN Returns(T_playwright_refusal, <<>>)
    ELSE IF ~page THEN exec_guarded(code, beh, <<>>)
    ELSE \* page.context.cookies() and page.evaluate(...) run before the try block,
         \* after sys.stdout was replaced by the buffer
         LET r == run_steps(<<Direct("context.cookies"), Direct("evaluate")>>, fate, 0, <<>>) IN
         IF r.ok THEN exec_guarded(code, beh, r.calls)
         ELSE [Raises(r.err, r.calls) EXCEPT !.redirected = TRUE]

(***************************************************************************)
(* Tools.execute_tool: eval("self." + tool_use) inside try/except.  A      *)
(* descriptor is the attribute name that follows "self." with what the     *)
(* call passes: arg (a script or code text), page (whether the browsing    *)
(* context is passed to python_interpreter), flag (a boolean argument).    *)
(***************************************************************************)
\* the operations the tool list of extract_tool_use and the spec name
OperationNames == {"execute_js", "click", "fill", "submit", "presskey", "goto", "refresh",
                   "python_interpreter", "discover_forms", "complete",
                   "get_user_input", "auth_needed"}

\* other attributes of a Tools object that "self." + name resolves
OtherAttributes == {"safe", "__init__", "_with_retries", "_wrap_js_for_playwright"}

\* names no attribute of a Tools object has
UnresolvableNames == {"frobnicate", "Click"}

\* str(e) of the AttributeError of an unresolvable name (abbreviated)
T_no_attribute == <<"n","o"," ","a","t","t","r","i","b","u","t","e">>

\* the call the descriptor names, evaluated
eval_call(self_safe, desc, fate, beh, eof) ==
    CASE desc.name = "execute_js" -> execute_js(self_safe, desc.arg, fate)
      [] desc.name = "click" -> click(self_safe, fate)
      [] desc.name = "fill" -> fill(self_safe, fate)
      [] desc.name = "submit" -> submit(self_safe, fate)
      [] desc.name = "presskey" -> presskey(self_safe, fate)
      [] desc.name = "goto" -> goto(self_safe, fate)
      [] desc.name = "refresh" -> refresh(self_safe, fate)
      [] desc.name = "python_interpreter" ->
            python_interpreter(self_safe, desc.arg, desc.page, fate, beh)
      [] desc.name = "discover_forms" -> discover_forms(self_safe, fate)
      [] desc.name = "complete" -> complete
      [] desc.name = "get_user_input" -> get_user_input(eof)
      [] desc.name = "auth_needed" -> auth_needed(eof)
      \* self.safe: the value of the attribute
      [] desc.name = "safe" -> Returns(PyBool(self_safe), <<>>)
      \* self.__init__(7000, flag) returns None
      [] desc.name = "__init__" -> Returns(NoneValue, <<>>)
      \* self._with_retries(page.click, selector): page.click returns None
      [] desc.name = "_with_retries" ->
            LET r == _with_retries("click", DefaultRetries, fate, 0) IN
            IF r.ok THEN Returns(NoneValue, r.calls) ELSE Raises(r.err, r.calls)
      [] desc.name = "_wrap_js_for_playwright" ->
            Returns(_wrap_js_for_playwright(desc.arg), <<>>)
      [] OTHER -> Raises(T_no_attribute, <<>>)

execute_tool(self_safe, desc, fate, beh, eof) ==
    LET r == eval_call(self_safe, desc, fate, beh, eof) IN
    IF r.raised
    THEN [r EXCEPT !.raised = FALSE, !.val = T_Error_executing_tool \o r.val]
    ELSE r

\* self.safe after execute_tool: self.__init__(7000, flag) assigns it
safe_after_execute_tool(self_safe, desc) ==
    IF desc.name = "__init__" THEN desc.flag ELSE self_safe

(***************************************************************************)
(* State.                                                                  *)
(***************************************************************************)
VARIABLES
    safe0,      \* the safe argument the Tools object was constructed with
    safe,       \* self.safe
    stdout,     \* sys.stdout: "orig", or "buffer" (a StringIO of python_interpreter)
    phase,      \* the caller of the dispatcher: "idle", or "returned" (holding out)
    call,       \* the operation the caller invoked last, with its arguments
    out         \* what that operation did: see Returns and Raises

VARIABLES
    w_pc,       \* "input", "once", "twice"
    w_in,       \* a script text
    w_out,      \* _wrap_js_for_playwright(w_in)
    w_twice     \* _wrap_js_for_playwright(w_out)

toolVars == <<safe0, safe, stdout, phase, call, out>>
wrapVars == <<w_pc, w_in, w_out, w_twice>>

(***************************************************************************)
(* Reporter (src/reporter.py).  The reasoning service (self.llm.reason) is *)
(* external: a call of it returns a text or raises.                        *)
(***************************************************************************)
\* the longest run of Reporter.report calls on one Reporter
MaxReports == 3

T_yes == <<"y","e","s">>

\* "\n\n-------\n\n"
T_delimiter == <<"\n","\n","-","-","-","-","-","-","-","\n","\n">>

\* the reasoning service raised instead of replying
ReasonFailed == <<"ReasonError">>

\* the content of a file that does not exist
FileMissing == <<"ENOENT">>

\* the directories a Reporter may be constructed with (output_dir)
Dirs == {"security_results", "results"}

\* the request report appends to the history it was given (abbreviated)
AnalyzeRequest == [role |-> "user", content |-> "Please analyze our conversation history"]

\* str.lower, one character
lower_char(c) ==
    CASE c = "A" -> "a" [] c = "B" -> "b" [] c = "C" -> "c" [] c = "D" -> "d"
      [] c = "E" -> "e" [] c = "F" -> "f" [] c = "G" -> "g" [] c = "H" -> "h"
      [] c = "I" -> "i" [] c = "J" -> "j" [] c = "K" -> "k" [] c = "L" -> "l"
      [] c = "M" -> "m" [] c = "N" -> "n" [] c = "O" -> "o" [] c = "P" -> "p"
      [] c = "Q" -> "q" [] c = "R" -> "r" [] c = "S" -> "s" [] c = "T" -> "t"
      [] c = "U" -> "u" [] c = "V" -> "v" [] c = "W" -> "w" [] c = "X" -> "x"
      [] c = "Y" -> "y" [] c = "Z" -> "z"
      [] OTHER -> c

\* str.lower
lower(s) == [i \in 1..Len(s) |-> lower_char(s[i])]

\* str(v)
py_str(v) ==
    CASE v = NoneValue -> <<"N","o","n","e">>
      [] v = TrueValue -> <<"T","r","u","e">>
      [] v = FalseValue -> <<"F","a","l","s","e">>
      [] OTHER -> v

\* sep.join(list)
RECURSIVE join(_, _)
join(sep, list) ==
    IF list = <<>> THEN <<>>
    ELSE IF Len(list) = 1 THEN list[1]
    ELSE list[1] \o sep \o join(sep, Tail(list))

\* Reporter.parse_report, after the reasoning service replied: "yes" in str(response)
parse_verdict(response) == contains(py_str(response), T_yes)

\* open(path, "w") raised FileNotFoundError: the directory of path does not exist
FileNotFound == <<"FileNotFoundError">>

\* Reporter.save_reports, with dirs the directories that exist: the file of
\* self.output_dir is rewritten with all reports; no directory is created, and
\* open raises when the output directory does not exist
save_reports(fs, dirs, dir, reps) ==
    IF dir \in dirs
    THEN [files |-> [fs EXCEPT ![dir] = join(T_delimiter, reps)], raised |-> FALSE]
    ELSE [files |-> fs, raised |-> TRUE]

\* Reporter.report on a Reporter whose state is self, with the replies of the
\* reasoning service to the judge request and to the parse request.  The result
\* holds the state after the call and what the call returned or raised.
report(self, hist, judge, parse) ==
    LET history1 == Append(hist, AnalyzeRequest) IN
    IF judge = ReasonFailed
    THEN [reports |-> self.reports, files |-> self.files, history |-> history1,
          raised |-> TRUE, verdict |-> FALSE, text |-> ReasonFailed]
    ELSE IF parse = ReasonFailed
    THEN [reports |-> self.reports, files |-> self.files, history |-> history1,
          raised |-> TRUE, verdict |-> FALSE, text |-> ReasonFailed]
    ELSE LET successful_exploit == parse_verdict(parse) IN
         IF successful_exploit
         THEN LET reports1 == Append(self.reports, judge)
                  saved == save_reports(self.files, self.dirs, self.output_dir, reports1)
              IN IF saved.raised
                 THEN \* self.reports.append(report) came first
                      [reports |-> reports1, files |-> saved.files, history |-> history1,
                       raised |-> TRUE, verdict |-> FALSE, text |-> FileNotFound]
                 ELSE [reports |-> reports1, files |-> saved.files, history |-> history1,
                       raised |-> FALSE, verdict |-> TRUE, text |-> judge]
         ELSE [reports |-> self.reports, files |-> self.files, history |-> history1,
               raised |-> FALSE, verdict |-> FALSE, text |-> judge]

\* "No vulns were reported."
T_no_vulns == <<"N","o"," ","v","u","l","n","s"," ","w","e","r","e"," ","r","e","p","o","r","t","e","d",".">>

\* the directory generate_summary_report reads the report file from
SummarySourceDir == "security_results"

\* Reporter.generate_summary_report on a Reporter whose state is self, with the
\* reply of the reasoning service.  content is the text of findings given to the
\* reasoning service; summaries holds <dir>/<self.filename>_summary.md afterwards;
\* dirs the directories that exist (self.output_dir.mkdir(parents=True, exist_ok=True)).
generate_summary_report(self, reply) ==
    LET read == self.files[SummarySourceDir]
        report_content == IF read = FileMissing THEN T_no_vulns ELSE read
    IN IF reply = ReasonFailed
       THEN [summaries |-> self.summaries, dirs |-> self.dirs, content |-> report_content,
             raised |-> TRUE, text |-> ReasonFailed]
       ELSE [summaries |-> [self.summaries EXCEPT ![self.output_dir] = reply],
             dirs |-> self.dirs \cup {self.output_dir},
             content |-> report_content, raised |-> FALSE, text |-> NoneValue]

VARIABLES
    output_dir, \* self.output_dir
    dirs,       \* the directories that exist in the file system
    reports,    \* self.reports
    files,      \* the content of <dir>/<self.filename>.txt, for each directory
    summaries,  \* the content of <dir>/<self.filename>_summary.md, for each directory
    history,    \* the caller's transcript, the list passed to report
    r_phase,    \* the caller of the reporter: "idle", or "returned" (holding r_out)
    r_call,     \* the replies of the reasoning service during the last report call
    r_out       \* what the last report call returned or raised

repVars == <<output_dir, dirs, reports, files, summaries, history, r_phase, r_call, r_out>>

VARIABLES
    t_pc,       \* the caller of _with_retries: "idle" or "done"
    t_fate,     \* which attempts of the operation raise
    t_call,     \* the retries argument of the call, and whether it was left out
    t_res       \* what _with_retries returned or raised, and the attempts made

retryVars == <<t_pc, t_fate, t_call, t_res>>

VARIABLES
    c_pc,       \* the caller of generate_safe_crawl_summary: "idle" or "done"
    c_in,       \* the target, the network records and the options of the call
    c_summary   \* the summary the call built (data)

crawlVars == <<c_pc, c_in, c_summary>>

restVars == <<retryVars, crawlVars>>

vars == <<toolVars, wrapVars, repVars, restVars>>

(***************************************************************************)
(* Inputs.                                                                 *)
(***************************************************************************)
\* all concatenations of at most n texts of the set pieces
RECURSIVE Concats(_, _)
Concats(pieces, n) ==
    IF n = 0 THEN {<<>>}
    ELSE LET shorter == Concats(pieces, n - 1) IN
         shorter \cup {p \o q : p \in pieces, q \in shorter}

\* script texts: pieces of the syntax _wrap_js_for_playwright looks at, between
\* optional leading and trailing whitespace
JsPieces == {T_return_sp, T_return, <<"\t">>, T_arrow, T_paren_arrow, T_function, <<"x">>}
JsLead == {<<>>, <<" ">>}
JsTrail == {<<>>, <<" ">>, <<"\n">>}
JsInputs == {l \o b \o t : l \in JsLead, b \in Concats(JsPieces, MaxPieces), t \in JsTrail}
             \cup {NoneValue}

\* the scripts the dispatcher's execute_js is called with
JsCodes == {T_return_sp \o <<"x">>, <<"x">>, T_arrow_sp \o <<"x">>, <<" ","x"," ">>, NoneValue}

\* code texts of python_interpreter: pieces the forbidden substrings are made of
PyPieces == {<<"s","y","n","c","_","p","l","a","y","w","r","i","g","h","t">>, <<"(">>, <<"a">>,
             <<"f","r","o","m"," ","p","l","a","y","w","r","i","g","h","t">>,
             <<"i","m","p","o","r","t">>, <<" ","p","l","a","y","w","r","i","g","h","t">>,
             <<"x"," ","=", " ", "1">>}
PyCodes == Concats(PyPieces, MaxCodePieces)
PyShortCodes == Concats(PyPieces, 1)

\* what the executed code prints: n characters, periodic with period 3
OutChars == <<"a","b","c">>
Out(n) == [i \in 1..n |-> OutChars[(i % 3) + 1]]
OutLens == {0, 1, OutputCap - 1, OutputCap, OutputCap + 1, OutputCap + MaxExtra}

T_boom == <<"b","o","o","m">>
NoBeh == [raises |-> FALSE, out |-> <<>>, err |-> <<>>]
ShortBehaviours == {NoBeh, [raises |-> FALSE, out |-> Out(1), err |-> <<>>],
                    [raises |-> TRUE, out |-> Out(1), err |-> T_boom]}
LongBehaviours == {[raises |-> FALSE, out |-> Out(n), err |-> <<>>] : n \in OutLens}
                  \cup {[raises |-> TRUE, out |-> Out(OutputCap + 1), err |-> T_boom]}
PyRuns == (PyCodes \X ShortBehaviours) \cup (PyShortCodes \X LongBehaviours)

\* the most call attempts one operation makes on the browsing context: submit
FateHorizon == 2 * (DefaultRetries + 1) + 2

\* the fates in which only the first n call attempts may raise
Fates(n) == {[k \in 1..FateHorizon |-> k <= n /\ g[k]] : g \in [1..n -> BOOLEAN]}
NoFate == [k \in 1..FateHorizon |-> FALSE]

Input(name, arg, page, flag, fate, beh, eof) ==
    [name |-> name, arg |-> arg, page |-> page, flag |-> flag,
     fate |-> fate, beh |-> beh, eof |-> eof]

\* the inputs of one call of the attribute name: its arguments and what the
\* environment (browsing context, executed code, standard input) does during it
Inputs(name) ==
    CASE name \in {"click", "fill", "submit", "presskey", "goto", "refresh", "_with_retries"} ->
            {Input(name, <<>>, TRUE, FALSE, f, NoBeh, FALSE) : f \in Fates(FateHorizon)}
      [] name = "discover_forms" ->
            {Input(name, <<>>, TRUE, FALSE, f, NoBeh, FALSE) : f \in Fates(1)}
      [] name = "execute_js" ->
            {Input(name, c, TRUE, FALSE, f, NoBeh, FALSE) : c \in JsCodes, f \in Fates(1)}
      [] name = "_wrap_js_for_playwright" ->
            {Input(name, c, FALSE, FALSE, NoFate, NoBeh, FALSE) : c \in JsCodes}
      [] name = "python_interpreter" ->
            {Input(name, r[1], FALSE, FALSE, NoFate, r[2], FALSE) : r \in PyRuns}
            \cup {Input(name, r[1], TRUE, FALSE, f, r[2], FALSE) : r \in PyRuns, f \in Fates(2)}
      [] name \in {"get_user_input", "auth_needed"} ->
            {Input(name, <<>>, FALSE, FALSE, NoFate, NoBeh, e) : e \in BOOLEAN}
      [] name = "__init__" ->
            {Input(name, <<>>, FALSE, b, NoFate, NoBeh, FALSE) : b \in BOOLEAN}
      [] OTHER -> {Input(name, <<>>, FALSE, FALSE, NoFate, NoBeh, FALSE)}

(***************************************************************************)
(* The dispatcher's caller: it invokes one operation at a time and takes   *)
(* what the operation returned (or the exception it raised).               *)
(***************************************************************************)
NoCall ==
    [op |-> "none", name |-> "none", arg |-> <<>>, page |-> FALSE, flag |-> FALSE,
     fate |-> NoFate]
NoOut == Returns(<<>>, <<>>)

\* fate: which call attempts on the browsing context raise during the call
Call(op, i) ==
    [op |-> op, name |-> i.name, arg |-> i.arg, page |-> i.page, flag |-> i.flag,
     fate |-> i.fate]

\* Tools.__init__(safe=...), with sys.stdout the stream of the process
InitTools ==
    /\ safe0 \in BOOLEAN
    /\ safe = safe0
    /\ stdout = "orig"
    /\ phase = "idle"
    /\ call = NoCall
    /\ out = NoOut

Perform(c, o, safe_after) ==
    /\ phase = "idle"
    /\ phase' = "returned"
    /\ call' = c
    /\ out' = o
    /\ stdout' = IF o.redirected THEN "buffer" ELSE stdout
    /\ safe' = safe_after
    /\ UNCHANGED <<safe0, wrapVars, repVars, restVars>>

ExecuteJs == \E i \in Inputs("execute_js") :
    Perform(Call("execute_js", i), execute_js(safe, i.arg, i.fate), safe)

Click == \E i \in Inputs("click") : Perform(Call("click", i), click(safe, i.fate), safe)

Fill == \E i \in Inputs("fill") : Perform(Call("fill", i), fill(safe, i.fate), safe)

Submit == \E i \in Inputs("submit") : Perform(Call("submit", i), submit(safe, i.fate), safe)

Presskey == \E i \in Inputs("presskey") :
    Perform(Call("presskey", i), presskey(safe, i.fate), safe)

Goto == \E i \in Inputs("goto") : Perform(Call("goto", i), goto(safe, i.fate), safe)

Refresh == \E i \in Inputs("refresh") : Perform(Call("refresh", i), refresh(safe, i.fate), safe)

PythonInterpreter == \E i \in Inputs("python_interpreter") :
    Perform(Call("python_interpreter", i),
            python_interpreter(safe, i.arg, i.page, i.fate, i.beh), safe)

DiscoverForms == \E i \in Inputs("discover_forms") :
    Perform(Call("discover_forms", i), discover_forms(safe, i.fate), safe)

Complete == \E i \in Inputs("complete") : Perform(Call("complete", i), complete, safe)

GetUserInput == \E i \in Inputs("get_user_input") :
    Perform(Call("get_user_input", i), get_user_input(i.eof), safe)

AuthNeeded == \E i \in Inputs("auth_needed") :
    Perform(Call("auth_needed", i), auth_needed(i.eof), safe)

\* execute_tool with any descriptor: eval("self." + text) resolves a listed
\* operation, another attribute of the object, or raises inside the try
ExecuteTool ==
    \E n \in OperationNames \cup OtherAttributes \cup UnresolvableNames : \E i \in Inputs(n) :
        Perform(Call("execute_tool", i), execute_tool(safe, i, i.fate, i.beh, i.eof),
                safe_after_execute_tool(safe, i))

\* the caller takes the result and is ready for its next call
Observe ==
    /\ phase = "returned"
    /\ phase' = "idle"
    /\ call' = NoCall
    /\ out' = NoOut
    /\ UNCHANGED <<safe0, safe, stdout, wrapVars, repVars, restVars>>

(***************************************************************************)
(* _wrap_js_for_playwright applied to a text, and to its own result.       *)
(***************************************************************************)
InitWrap ==
    /\ w_pc = "input"
    /\ w_in \in JsInputs
    /\ w_out = NoneValue
    /\ w_twice = NoneValue

IdleWrap ==
    /\ w_pc = "input"
    /\ w_in = NoneValue
    /\ w_out = NoneValue
    /\ w_twice = NoneValue

WrapOnce ==
    /\ w_pc = "input"
    /\ w_pc' = "once"
    /\ w_out' = _wrap_js_for_playwright(w_in)
    /\ UNCHANGED <<w_in, w_twice, toolVars, repVars, restVars>>

WrapTwice ==
    /\ w_pc = "once"
    /\ w_pc' = "twice"
    /\ w_twice' = _wrap_js_for_playwright(w_out)
    /\ UNCHANGED <<w_in, w_out, toolVars, repVars, restVars>>

(***************************************************************************)
(* The reporter's caller.                                                  *)
(***************************************************************************)
T_no == <<"n","o">>
JudgeReplies == {<<"R","1">>, <<"R","2">>, ReasonFailed}
ParseReplies == {T_yes, T_no, <<"Y","e","s">>, <<"Y","E","S">>, <<"e","y","e","s">>, <<"y","e","s","!">>,
                 <<"y"," ","e","s">>, <<"n","o",","," ","y","e","s">>, <<>>, NoneValue,
                 ReasonFailed}

\* transcripts the orchestrator holds when it first calls report
Histories == {<<>>, <<[role |-> "assistant", content |-> "tried a payload"]>>}

\* the replies of the summarizer
SummaryReplies == {<<"S","1">>, ReasonFailed}

NoReportCall ==
    [op |-> "none", judge |-> <<>>, parse |-> <<>>, reports_before |-> <<>>,
     files_before |-> <<>>, history_before |-> <<>>, content |-> <<>>]
NoReportOut == [raised |-> FALSE, verdict |-> FALSE, text |-> <<>>]

\* Reporter.__init__(starting_url, output_dir): no report yet, no report file yet.
\* __init__ creates no directory: each directory exists or not, as the
\* environment left it.
InitReporter ==
    /\ output_dir \in Dirs
    /\ dirs \in SUBSET Dirs
    /\ reports = <<>>
    /\ files = [d \in Dirs |-> FileMissing]
    /\ summaries = [d \in Dirs |-> FileMissing]
    /\ history \in Histories
    /\ r_phase = "idle"
    /\ r_call = NoReportCall
    /\ r_out = NoReportOut

IdleReporter ==
    /\ output_dir = "security_results"
    /\ dirs = {}
    /\ reports = <<>>
    /\ files = [d \in Dirs |-> FileMissing]
    /\ summaries = [d \in Dirs |-> FileMissing]
    /\ history = <<>>
    /\ r_phase = "idle"
    /\ r_call = NoReportCall
    /\ r_out = NoReportOut

IdleTools ==
    /\ safe0 = FALSE
    /\ safe = FALSE
    /\ stdout = "orig"
    /\ phase = "idle"
    /\ call = NoCall
    /\ out = NoOut

\* report(history) with the caller's transcript
Report == \E judge \in JudgeReplies, parse \in ParseReplies :
    /\ r_phase = "idle"
    /\ Len(history) < MaxReports
    /\ LET self == [reports |-> reports, files |-> files, dirs |-> dirs,
                    output_dir |-> output_dir]
           r == report(self, history, judge, parse)
       IN /\ reports' = r.reports
          /\ files' = r.files
          /\ history' = r.history
          /\ r_out' = [raised |-> r.raised, verdict |-> r.verdict, text |-> r.text]
    /\ r_call' = [op |-> "report", judge |-> judge, parse |-> parse,
                  reports_before |-> reports, files_before |-> files,
                  history_before |-> history, content |-> <<>>]
    /\ r_phase' = "returned"
    /\ UNCHANGED <<output_dir, dirs, summaries, toolVars, wrapVars, restVars>>

\* save_reports(), called by another caller than report
SaveReports ==
    /\ r_phase = "idle"
    /\ LET saved == save_reports(files, dirs, output_dir, reports)
       IN /\ files' = saved.files
          /\ r_out' = [raised |-> saved.raised, verdict |-> FALSE,
                       text |-> IF saved.raised THEN FileNotFound ELSE NoneValue]
    /\ r_call' = [op |-> "save_reports", judge |-> <<>>, parse |-> <<>>,
                  reports_before |-> reports, files_before |-> files,
                  history_before |-> history, content |-> <<>>]
    /\ r_phase' = "returned"
    /\ UNCHANGED <<output_dir, dirs, reports, summaries, history, toolVars, wrapVars, restVars>>

\* generate_summary_report(), at any moment between two report calls
GenerateSummaryReport == \E reply \in SummaryReplies :
    /\ r_phase = "idle"
    /\ LET self == [files |-> files, summaries |-> summaries, dirs |-> dirs,
                    output_dir |-> output_dir]
           r == generate_summary_report(self, reply)
       IN /\ summaries' = r.summaries
          /\ dirs' = r.dirs
          /\ r_out' = [raised |-> r.raised, verdict |-> FALSE, text |-> r.text]
          /\ r_call' = [op |-> "generate_summary_report", judge |-> reply, parse |-> <<>>,
                        reports_before |-> reports, files_before |-> files,
                        history_before |-> history, content |-> r.content]
    /\ r_phase' = "returned"
    /\ UNCHANGED <<output_dir, reports, files, history, toolVars, wrapVars, restVars>>

ReportObserve ==
    /\ r_phase = "returned"
    /\ r_phase' = "idle"
    /\ r_call' = NoReportCall
    /\ r_out' = NoReportOut
    /\ UNCHANGED <<output_dir, dirs, reports, files, summaries, history,
                   toolVars, wrapVars, restVars>>

(***************************************************************************)
(* The caller of _with_retries.                                            *)
(***************************************************************************)
\* the largest retries argument
MaxRetries == 3

NoRetryCall == [retries |-> 0, default |-> FALSE]
NoRetryResult == [ok |-> FALSE, err |-> <<>>, val |-> <<>>, calls |-> <<>>, k |-> 0]

InitRetry ==
    /\ t_pc = "idle"
    /\ t_fate \in Fates(FateHorizon)
    /\ t_call = NoRetryCall
    /\ t_res = NoRetryResult

IdleRetry ==
    /\ t_pc = "idle"
    /\ t_fate = NoFate
    /\ t_call = NoRetryCall
    /\ t_res = NoRetryResult

\* self._with_retries(func, *args, retries=r)
WithRetries == \E r \in 0..MaxRetries :
    /\ t_pc = "idle"
    /\ t_pc' = "done"
    /\ t_call' = [retries |-> r, default |-> FALSE]
    /\ t_res' = _with_retries("func", r, t_fate, 0)
    /\ UNCHANGED <<t_fate, toolVars, wrapVars, repVars, crawlVars>>

\* self._with_retries(func, *args)
WithRetriesDefault ==
    /\ t_pc = "idle"
    /\ t_pc' = "done"
    /\ t_call' = [retries |-> DefaultRetries, default |-> TRUE]
    /\ t_res' = _with_retries("func", DefaultRetries, t_fate, 0)
    /\ UNCHANGED <<t_fate, toolVars, wrapVars, repVars, crawlVars>>

\* no crawl summary is being generated
IdleCrawl ==
    /\ c_pc = "idle"
    /\ c_in = <<>>
    /\ c_summary = <<>>

(***************************************************************************)
(* Texts as Python orders and searches them.                               *)
(***************************************************************************)
\* the printable ASCII characters in code point order (without the quotation
\* mark, the backslash and the grave accent, which no text of the model holds)
AsciiOrder ==
    <<" ", "!", "#", "$", "%", "&", "'", "(", ")", "*", "+", ",", "-", ".", "/",
      "0", "1", "2", "3", "4", "5", "6", "7", "8", "9", ":", ";", "<", "=", ">", "?",
      "@", "A", "B", "C", "D", "E", "F", "G", "H", "I", "J", "K", "L", "M", "N", "O",
      "P", "Q", "R", "S", "T", "U", "V", "W", "X", "Y", "Z", "[", "]", "^", "_",
      "a", "b", "c", "d", "e", "f", "g", "h", "i", "j", "k", "l", "m", "n", "o",
      "p", "q", "r", "s", "t", "u", "v", "w", "x", "y", "z", "{", "|", "}", "~">>

\* the rank of a character in code point order
Ord(c) == CHOOSE i \in 1..Len(AsciiOrder) : AsciiOrder[i] = c

\* a < b for two str values
str_lt(a, b) ==
    \E i \in 1..(Len(a) + 1) :
        /\ i <= Len(b)
        /\ \A j \in 1..(i - 1) : a[j] = b[j]
        /\ (i = Len(a) + 1 \/ Ord(a[i]) < Ord(b[i]))

\* sorted(S) for a set S of str values
RECURSIVE sorted(_)
sorted(S) ==
    IF S = {} THEN <<>>
    ELSE LET least == CHOOSE a \in S : \A b \in S \ {a} : str_lt(a, b)
         IN <<least>> \o sorted(S \ {least})

\* the position of the first c in s, 0 when s has none (s.find(c) + 1)
first_index(s, c) ==
    IF \E i \in 1..Len(s) : s[i] = c
    THEN CHOOSE i \in 1..Len(s) : s[i] = c /\ \A j \in 1..(i - 1) : s[j] # c
    ELSE 0

AsciiLetters ==
    {"a", "b", "c", "d", "e", "f", "g", "h", "i", "j", "k", "l", "m", "n", "o", "p",
     "q", "r", "s", "t", "u", "v", "w", "x", "y", "z", "A", "B", "C", "D", "E", "F",
     "G", "H", "I", "J", "K", "L", "M", "N", "O", "P", "Q", "R", "S", "T", "U", "V",
     "W", "X", "Y", "Z"}

\* urllib.parse.scheme_chars
scheme_chars == AsciiLetters \cup {"0", "1", "2", "3", "4", "5", "6", "7", "8", "9", "+", "-", "."}

(***************************************************************************)
(* urllib.parse, for URLs of printable ASCII characters without whitespace, *)
(* ";", "[" and "]" and with the scheme http or https, or none.            *)
(***************************************************************************)
T_http == <<"h","t","t","p">>
T_https == <<"h","t","t","p","s">>

\* the schemes of urllib.parse.uses_netloc that the URLs of the model have
uses_netloc == {T_http, T_https}

\* urlsplit(url): scheme, netloc, path, query and fragment
urlsplit(url) ==
    LET i == first_index(url, ":")
        has_scheme == /\ i > 1
                      /\ url[1] \in AsciiLetters
                      /\ \A j \in 1..(i - 1) : url[j] \in scheme_chars
        scheme == IF has_scheme THEN lower(SubSeq(url, 1, i - 1)) ELSE <<>>
        rest1 == IF has_scheme THEN SubSeq(url, i + 1, Len(url)) ELSE url
        has_netloc == startswith(rest1, <<"/", "/">>)
        after == SubSeq(rest1, 3, Len(rest1))
        delims == {j \in 1..Len(after) : after[j] \in {"/", "?", "#"}}
        delim == IF delims = {} THEN Len(after) + 1
                 ELSE CHOOSE j \in delims : \A m \in delims : j <= m
        netloc == IF has_netloc THEN SubSeq(after, 1, delim - 1) ELSE <<>>
        rest2 == IF has_netloc THEN SubSeq(after, delim, Len(after)) ELSE rest1
        h == first_index(rest2, "#")
        fragment == IF h > 0 THEN SubSeq(rest2, h + 1, Len(rest2)) ELSE <<>>
        rest3 == IF h > 0 THEN SubSeq(rest2, 1, h - 1) ELSE rest2
        q == first_index(rest3, "?")
        query == IF q > 0 THEN SubSeq(rest3, q + 1, Len(rest3)) ELSE <<>>
        path == IF q > 0 THEN SubSeq(rest3, 1, q - 1) ELSE rest3
    IN [scheme |-> scheme, netloc |-> netloc, path |-> path, query |-> query,
        fragment |-> fragment]

\* urlunsplit((scheme, netloc, path, query, fragment))
urlunsplit(p) ==
    LET url1 == IF p.netloc # <<>>
                   \/ (p.scheme # <<>> /\ p.scheme \in uses_netloc
                       /\ ~startswith(p.path, <<"/", "/">>))
                THEN <<"/", "/">> \o p.netloc
                     \o (IF p.path # <<>> /\ p.path[1] # "/" THEN <<"/">> ELSE <<>>)
                     \o p.path
                ELSE p.path
        url2 == IF p.scheme # <<>> THEN p.scheme \o <<":">> \o url1 ELSE url1
        url3 == IF p.query # <<>> THEN url2 \o <<"?">> \o p.query ELSE url2
    IN IF p.fragment # <<>> THEN url3 \o <<"#">> \o p.fragment ELSE url3

\* urldefrag(url)[0]: a URL without "#" is returned as it is, any other is
\* split and put together again without its fragment
urldefrag(url) ==
    IF first_index(url, "#") > 0
    THEN urlunsplit([urlsplit(url) EXCEPT !.fragment = <<>>])
    ELSE url

\* a plausible slip: a host that only begins with the host of the target passes
same_origin_prefix(u, start_host) == startswith(urlsplit(u).netloc, start_host)

\* same_origin(u), with start_host = urlparse(self.starting_url).netloc
same_origin(u, start_host) == urlsplit(u).netloc = start_host

\* canon(u)
canon(u) == urldefrag(u)

(***************************************************************************)
(* Reporter.generate_safe_crawl_summary.  A request record has a url (a    *)
(* text, or None when the key is missing) and a resource_type; a response  *)
(* record has a status, the names of its headers in the order of the dict, *)
(* and marker: whether str(record) contains "SAFE_MODE".                   *)
(***************************************************************************)
\* the number of header pairs kept
TopHeaders == 15

\* bool(v) of a url
truthy(v) == v # NoneValue /\ v # <<>>

\* the elements of a list, as a set
Elems(list) == {list[i] : i \in 1..Len(list)}

\* a plausible slip: only document requests count as visited
visited_urls_documents(requests, start_host, include_third_party) ==
    LET urls_all == {r.url : r \in {x \in Elems(requests) :
                                        truthy(x.url) /\ x.resource_type = "document"}}
        kept == IF include_third_party THEN urls_all
                ELSE {u \in urls_all : same_origin(u, start_host)}
    IN sorted({canon(u) : u \in kept})

\* visited_urls: the URLs of all requests, filtered, canonical, sorted
visited_urls(requests, start_host, include_third_party) ==
    LET urls_all == {r.url : r \in {x \in Elems(requests) : truthy(x.url)}}
        kept == IF include_third_party THEN urls_all
                ELSE {u \in urls_all : same_origin(u, start_host)}
    IN sorted({canon(u) : u \in kept})

\* js_endpoints: the same for the requests of resource type xhr or fetch
js_endpoints(requests, start_host, include_third_party) ==
    LET xhr_fetch == {r \in Elems(requests) : r.resource_type \in {"xhr", "fetch"}}
        ep_urls == {r.url : r \in {x \in xhr_fetch : truthy(x.url)}}
        kept == IF include_third_party THEN ep_urls
                ELSE {u \in ep_urls : same_origin(u, start_host)}
    IN sorted({canon(u) : u \in kept})

\* blocked_count
blocked_count(responses) ==
    Cardinality({i \in 1..Len(responses) : responses[i].status = 0 /\ responses[i].marker})

\* header_counts[name] = header_counts.get(name, 0) + 1, the dict kept as the
\* list of its items in insertion order
count_one(counts, name) ==
    IF \E i \in 1..Len(counts) : counts[i].name = name
    THEN [i \in 1..Len(counts) |->
            IF counts[i].name = name
            THEN [name |-> name, count |-> counts[i].count + 1]
            ELSE counts[i]]
    ELSE Append(counts, [name |-> name, count |-> 1])

\* a plausible slip: the names are counted as they are written
RECURSIVE count_headers_cased(_, _)
count_headers_cased(keys, counts) ==
    IF keys = <<>> THEN counts
    ELSE count_headers_cased(Tail(keys), count_one(counts, Head(keys)))

\* for k in hdrs.keys(): the lower-cased name is counted
RECURSIVE count_headers(_, _)
count_headers(keys, counts) ==
    IF keys = <<>> THEN counts
    ELSE count_headers(Tail(keys), count_one(counts, lower(Head(keys))))

\* for res in responses
RECURSIVE header_counts(_, _)
header_counts(responses, counts) ==
    IF responses = <<>> THEN counts
    ELSE header_counts(Tail(responses), count_headers(Head(responses).headers, counts))

\* sorted(items, key=count, reverse=True): a stable sort, so that items of equal
\* count keep their order
RECURSIVE sorted_by_count(_)
sorted_by_count(items) ==
    IF items = <<>> THEN <<>>
    ELSE LET first == CHOOSE i \in 1..Len(items) :
                          /\ \A j \in 1..Len(items) : items[j].count <= items[i].count
                          /\ \A j \in 1..(i - 1) : items[j].count < items[i].count
         IN <<items[first]>>
            \o sorted_by_count(SubSeq(items, 1, first - 1)
                                \o SubSeq(items, first + 1, Len(items)))

\* common_headers
common_headers(responses) ==
    LET all == sorted_by_count(header_counts(responses, <<>>)) IN
    SubSeq(all, 1, IF Len(all) < TopHeaders THEN Len(all) ELSE TopHeaders)

\* the summary (data, without its time stamp) and the artifacts written
generate_safe_crawl_summary(starting_url, in) ==
    LET start_host == urlsplit(starting_url).netloc IN
    [target |-> starting_url,
     visited_urls |-> visited_urls(in.requests, start_host, in.include_third_party),
     js_endpoints |-> js_endpoints(in.requests, start_host, in.include_third_party),
     forms_json |-> in.forms_json,
     common_response_headers |-> common_headers(in.responses),
     blocked_non_get_attempts |-> blocked_count(in.responses),
     artifacts |-> {"json", "md"}
                   \cup (IF in.export_csv THEN {"endpoints.csv", "forms.csv"} ELSE {})]

(***************************************************************************)
(* The caller of generate_safe_crawl_summary: the network records.         *)
(***************************************************************************)
\* the longest lists of request and of response records
MaxRequests == 3
MaxResponses == 3

\* all lists of at most n elements of S
Lists(S, n) == UNION {[1..k -> S] : k \in 0..n}

Request(url, resource_type) == [url |-> url, resource_type |-> resource_type]
Response(status, headers, marker) == [status |-> status, headers |-> headers, marker |-> marker]

U_a_root == <<"h","t","t","p","s",":","/","/","a",".","i","o","/">>
U_a_x == <<"h","t","t","p","s",":","/","/","a",".","i","o","/","x">>
U_b_x == <<"h","t","t","p","s",":","/","/","b",".","i","o","/","x">>

Targets == {<<"h","t","t","p","s",":","/","/","a",".","i","o">>, <<"h","t","t","p","s",":","/","/","b",".","i","o","/","x">>}

RequestPool ==
    {Request(U_a_root, "document"),
     Request(U_a_x, "xhr"),
     Request(U_b_x, "script"),
     Request(U_a_root \o <<"#", "f">>, "document"),
     Request(U_a_x \o <<"#", "f">>, "fetch"),
     Request(U_b_x \o <<"#", "f">>, "xhr"),
     Request(U_a_root \o <<"?">>, "document"),
     Request(U_a_root \o <<"?", "#", "f">>, "document"),
     Request(<<"h","t","t","p","s",":","/","/","a",".","i","o",".","b",".","i","o","/">>, "xhr"),
     Request(<<>>, "document"),
     Request(NoneValue, "xhr")}

H_Server == <<"S","e","r","v","e","r">>
H_Content_Type == <<"C","o","n","t","e","n","t","-","T","y","p","e">>
H_content_type == <<"c","o","n","t","e","n","t","-","t","y","p","e">>
H_many ==
    <<<<"X","-","A">>, <<"X","-","B">>, <<"X","-","C">>, <<"X","-","D">>,
      <<"X","-","E">>, <<"X","-","F">>, <<"X","-","G">>, <<"X","-","H">>,
      <<"X","-","I">>, <<"X","-","J">>, <<"X","-","K">>, <<"X","-","L">>,
      <<"X","-","M">>, <<"X","-","N">>, <<"X","-","O">>, <<"X","-","P">>>>

ResponsePool ==
    {Response(200, <<H_Server>>, FALSE),
     Response(200, <<H_Content_Type>>, FALSE),
     Response(200, <<H_content_type, H_Server>>, FALSE),
     Response(200, <<H_Content_Type, H_content_type>>, FALSE),
     Response(200, H_many, FALSE),
     Response(0, <<>>, TRUE),
     Response(0, <<<<"s","e","r","v","e","r">>>>, FALSE)}

\* the records of src/tests/test_reporter_safe_crawl.py, with shorter names
TestRequests == <<Request(U_a_root, "document"), Request(U_a_x, "xhr"), Request(U_b_x, "script")>>
TestResponses == <<Response(200, <<H_Server>>, FALSE), Response(200, <<H_Content_Type>>, FALSE)>>

CrawlInput(target, requests, responses, include_third_party, export_csv) ==
    [target |-> target, requests |-> requests, responses |-> responses,
     forms_json |-> <<"[", "]">>, include_third_party |-> include_third_party,
     export_csv |-> export_csv]

CrawlInputs ==
    {CrawlInput(t, rq, TestResponses, inc, FALSE) :
        t \in Targets, rq \in Lists(RequestPool, MaxRequests), inc \in BOOLEAN}
    \cup {CrawlInput(t, TestRequests, rs, FALSE, TRUE) :
        t \in Targets, rs \in Lists(ResponsePool, MaxResponses)}

NoSummary == <<>>

\* Reporter(starting_url, ...) and the network records its proxy holds
InitCrawl ==
    /\ c_pc = "idle"
    /\ c_in \in CrawlInputs
    /\ c_summary = NoSummary

\* generate_safe_crawl_summary(proxy, forms_json, include_third_party, export_csv);
\* out_dir.mkdir(parents=True, exist_ok=True) creates the output directory too
GenerateSafeCrawlSummary ==
    /\ c_pc = "idle"
    /\ c_in # <<>>
    /\ c_pc' = "done"
    /\ c_summary' = generate_safe_crawl_summary(c_in.target, c_in)
    /\ dirs' = dirs \cup {output_dir}
    /\ UNCHANGED <<c_in, output_dir, reports, files, summaries, history, r_phase, r_call,
                   r_out, toolVars, wrapVars, retryVars>>

(***************************************************************************)
(* Specifications.                                                         *)
(***************************************************************************)
\* the dispatcher, driven by calls of its operations and by execute_tool with
\* any descriptor
Init == InitTools /\ IdleWrap /\ IdleReporter /\ IdleRetry /\ IdleCrawl

Next ==
    \/ ExecuteJs
    \/ Click
    \/ Fill
    \/ Submit
    \/ Presskey
    \/ Goto
    \/ Refresh
    \/ PythonInterpreter
    \/ DiscoverForms
    \/ Complete
    \/ GetUserInput
    \/ AuthNeeded
    \/ ExecuteTool
    \/ Observe

Spec == Init /\ [][Next]_vars

\* the script wrapper, as a function of its input
InitWrapOnly == IdleTools /\ InitWrap /\ IdleReporter /\ IdleRetry /\ IdleCrawl

NextWrap ==
    \/ WrapOnce
    \/ WrapTwice

SpecWrap == InitWrapOnly /\ [][NextWrap]_vars

\* the reporter
InitReporterOnly == IdleTools /\ IdleWrap /\ InitReporter /\ IdleRetry /\ IdleCrawl

NextReporter ==
    \/ Report
    \/ SaveReports
    \/ GenerateSummaryReport
    \/ ReportObserve

SpecReporter == InitReporterOnly /\ [][NextReporter]_vars

(***************************************************************************)
(* Claims.                                                                 *)
(***************************************************************************)
Returned(names) == phase = "returned" /\ call.name \in names

NoMutatingCall == \A k \in 1..Len(out.calls) : out.calls[k] \notin MutatingCalls

\* C1 (as claimed): a dispatcher constructed with safe mode on answers every click, fill,
\* submit and python_interpreter call (direct or through execute_tool), whatever
\* the arguments and whatever was called before, with a text that begins with
\* "SAFE_MODE:", without raising and without one call on the browsing context.
C1_SafeModeRefuses ==
    (safe0 /\ Returned({"click", "fill", "submit", "python_interpreter"}))
        => /\ ~out.raised
           /\ startswith(out.val, T_SAFE_MODE)
           /\ out.calls = <<>>
           /\ out.executed = "no"

\* C2 (as claimed): with safe mode on no operation makes a mutating call on the
\* browsing context, and click, fill, submit, presskey and python_interpreter each
\* return a refusal that begins with "SAFE_MODE:".
C2_SafeModeDisablesAllMutation ==
    (safe0 /\ phase = "returned")
        => /\ NoMutatingCall
           /\ call.name \in {"click", "fill", "submit", "presskey", "python_interpreter"}
                => (~out.raised /\ startswith(out.val, T_SAFE_MODE))

\* C3 (as claimed): each of execute_js, click, fill, submit, presskey, goto, refresh,
\* python_interpreter, discover_forms and complete returns an observation to its
\* caller and never raises, whichever calls on the browsing context fail.
C3_OperationsNeverRaise ==
    (phase = "returned"
     /\ call.op \in {"execute_js", "click", "fill", "submit", "presskey", "goto", "refresh",
                     "python_interpreter", "discover_forms", "complete"})
        => ~out.raised

\* C4 (as claimed): a descriptor whose name is no listed operation executes
\* nothing: no call reaches the browsing context, the safe-mode flag keeps the
\* value it was constructed with, and the result is "Error executing tool: ...".
C4_UnlistedNamesExecuteNothing ==
    /\ safe = safe0
    /\ (phase = "returned" /\ call.op = "execute_tool" /\ call.name \notin OperationNames)
          => /\ out.calls = <<>>
             /\ ~out.raised
             /\ startswith(out.val, T_Error_executing_tool)

\* C5: applying _wrap_js_for_playwright to its own result gives that result.
C5_WrapIdempotent == (w_pc = "twice") => (w_twice = w_out)

\* C5 witness: a text "return return ..." was wrapped, and wrapped again
C5_Witness ==
    /\ w_pc = "twice"
    /\ startswith(w_in, T_return_sp \o T_return_sp)
    /\ w_out # w_in
    /\ w_twice = w_out

\* C6 (as claimed): for a text made of the keyword return, one whitespace
\* character and any text X (empty or not), the result is "() => " followed by X.
C6_ReturnAlwaysWrapped ==
    (w_pc # "input" /\ isinstance_str(w_in) /\ startswith(w_in, T_return)
     /\ Len(w_in) > Len(T_return) /\ w_in[Len(T_return) + 1] \in Whitespace)
        => w_out = T_arrow_sp \o SubSeq(w_in, Len(T_return) + 2, Len(w_in))

BeginsCallable(t) ==
    startswith(t, T_arrow) \/ startswith(t, T_paren_arrow) \/ startswith(t, T_function)

\* C7 (as claimed): a text that begins with "() =>", "(() =>" or "function", or
\* that does not begin with "return", is returned as it is.
C7_CallableAndBareUnchanged ==
    (w_pc # "input" /\ isinstance_str(w_in)
     /\ (BeginsCallable(w_in) \/ ~startswith(w_in, T_return)))
        => w_out = w_in

\* the text without its leading and trailing whitespace, computed by position
Trimmed(t) ==
    LET inner == {k \in 1..Len(t) : t[k] \notin Whitespace} IN
    IF inner = {} THEN <<>>
    ELSE SubSeq(t, CHOOSE k \in inner : \A j \in inner : k <= j,
                   CHOOSE k \in inner : \A j \in inner : k >= j)

\* C7 (amended): when the text without its leading and trailing whitespace begins
\* with "() =>", "(() =>" or "function", or does not begin with "return", the
\* result is that trimmed text.
C7_CallableAndBareTrimmed ==
    (w_pc # "input" /\ isinstance_str(w_in)
     /\ (BeginsCallable(Trimmed(w_in)) \/ ~startswith(Trimmed(w_in), T_return)))
        => w_out = Trimmed(w_in)

\* C7 witness: a callable text with trailing whitespace came back trimmed
C7_Witness ==
    /\ w_pc = "once"
    /\ startswith(w_in, T_arrow)
    /\ w_in[Len(w_in)] \in Whitespace
    /\ w_out # w_in
    /\ w_out = Trimmed(w_in)

\* the substrings the claim lists
C8_Denylist == {<<"s","y","n","c","_","p","l","a","y","w","r","i","g","h","t","(">>,
                <<"a","s","y","n","c","_","p","l","a","y","w","r","i","g","h","t","(">>,
                <<"f","r","o","m"," ","p","l","a","y","w","r","i","g","h","t">>,
                <<"i","m","p","o","r","t"," ","p","l","a","y","w","r","i","g","h","t">>}

C8_Denylisted(code) == \E f \in C8_Denylist : contains(code, f)

\* C8: python_interpreter given a code text that contains a denylisted substring
\* never executes it and never touches the browsing context, with safe mode
\* (self.safe at the call) on or off; with safe mode off it returns the fixed
\* PYTHON_ERROR refusal.
C8_DenylistedCodeRefused ==
    (Returned({"python_interpreter"}) /\ C8_Denylisted(call.arg))
        => /\ out.executed = "no"
           /\ out.calls = <<>>
           /\ ~out.raised
           /\ ~safe => out.val = T_playwright_refusal

\* C8 witness: with safe mode off and a browsing context supplied, a code text
\* with "from playwright" inside it, not at its start, was refused
C8_Witness ==
    /\ ~safe
    /\ Returned({"python_interpreter"})
    /\ call.page
    /\ contains(call.arg, <<"f","r","o","m"," ","p","l","a","y","w","r","i","g","h","t">>)
    /\ ~startswith(call.arg, <<"f">>)
    /\ out.val = T_playwright_refusal

\* C9: when the executed code returns, the observation is what it printed if that
\* is at most 4000 characters, and otherwise the first 4000 characters of it
\* followed by "... [truncated]".
C9_OutputCapped ==
    (Returned({"python_interpreter"}) /\ out.executed = "returned")
        => /\ ~out.raised
           /\ out.val = IF Len(out.captured) > 4000
                        THEN SubSeq(out.captured, 1, 4000) \o T_truncated
                        ELSE out.captured

\* C9 witness: more than 4000 characters were printed and the observation is
\* 4000 characters and the suffix
C9_Witness ==
    /\ Returned({"python_interpreter"})
    /\ out.executed = "returned"
    /\ Len(out.captured) > 4000
    /\ Len(out.val) = 4000 + Len(T_truncated)
    /\ out.val[4000] = out.captured[4000]

\* C10 (as claimed): when the parse-stage reply contains "yes" anywhere, report
\* returns (True, judge report) and the judge report is appended to self.reports.
C10_YesAnywhereIsPositive ==
    (r_phase = "returned" /\ r_call.op = "report"
     /\ r_call.judge # ReasonFailed /\ r_call.parse # ReasonFailed
     /\ isinstance_str(r_call.parse) /\ contains(r_call.parse, T_yes))
        => /\ ~r_out.raised
           /\ r_out.verdict
           /\ r_out.text = r_call.judge
           /\ reports = Append(r_call.reports_before, r_call.judge)

\* a report call returned to its caller, the reasoning service having replied twice
Judged ==
    /\ r_phase = "returned"
    /\ r_call.op = "report"
    /\ r_call.judge # ReasonFailed
    /\ r_call.parse # ReasonFailed

\* C11 (as claimed): the parse stage tests a lower-cased copy of the reply, so the
\* verdict is positive exactly when the lower-cased reply contains "yes"; "Yes" and
\* "YES" give a positive verdict (stated for the calls that return).
C11_VerdictOnLowerCasedReply ==
    (Judged /\ ~r_out.raised /\ isinstance_str(r_call.parse))
        => (r_out.verdict <=> contains(lower(r_call.parse), T_yes))

\* the parse-stage reply of the last report call makes the verdict positive
PositiveReply ==
    /\ r_call.judge # ReasonFailed
    /\ r_call.parse # ReasonFailed
    /\ contains(py_str(r_call.parse), T_yes)

\* C12 (as claimed): a report call with a positive verdict appends the judge
\* report to self.reports and leaves the report file of the output directory
\* holding the whole list joined by the delimiter; any other report call changes
\* neither the list nor any file.
C12_ReportsAndFileFollowPositiveVerdicts ==
    (r_phase = "returned" /\ r_call.op = "report")
        => IF PositiveReply
           THEN /\ reports = Append(r_call.reports_before, r_call.judge)
                /\ files[output_dir] = join(T_delimiter, reports)
           ELSE /\ reports = r_call.reports_before
                /\ files = r_call.files_before

\* C13 (as claimed): report leaves the caller's history as it was, whatever the
\* verdict and also when the reasoning service fails.
C13_HistoryUnchanged ==
    (r_phase = "returned" /\ r_call.op = "report") => history = r_call.history_before

\* C14 (as claimed): generate_summary_report gives the reasoning service the
\* content of the report file of the configured output directory, the file
\* save_reports writes, and the no-findings text only when that file is missing.
C14_SummaryReadsSavedReports ==
    (r_phase = "returned" /\ r_call.op = "generate_summary_report")
        => r_call.content = IF files[output_dir] = FileMissing THEN T_no_vulns
                            ELSE files[output_dir]

\* _with_retries, as a function of its retries argument and of the attempts that raise
InitRetryOnly == IdleTools /\ IdleWrap /\ IdleReporter /\ InitRetry /\ IdleCrawl

NextRetry ==
    \/ WithRetries
    \/ WithRetriesDefault

SpecRetry == InitRetryOnly /\ [][NextRetry]_vars

\* the attempts among the first n that do not raise
Successes(n) == {j \in 1..n : ~t_fate[j]}

\* the least element of a non-empty set of numbers
Least(S) == CHOOSE j \in S : \A i \in S : j <= i

\* C19: _with_retries with retries = r >= 0 makes at most r + 1 attempts; when one
\* of the first r + 1 attempts succeeds it makes exactly the attempts up to the
\* first success, none after it, and returns the result of that attempt; when
\* all r + 1 attempts fail it raises the error of attempt r + 1; with retries left
\* out it makes at most 3 attempts.
C19_RetriesUntilFirstSuccess ==
    t_pc = "done" =>
        LET r == t_call.retries
            n == Len(t_res.calls)
        IN /\ n <= r + 1
           /\ t_call.default => n <= 3
           /\ IF Successes(r + 1) # {}
              THEN /\ t_res.ok
                   /\ n = Least(Successes(r + 1))
                   /\ t_res.val = ResultOf(n)
              ELSE /\ ~t_res.ok
                   /\ n = r + 1
                   /\ t_res.err = ErrMsg(r + 1)

\* C19 witness: retries left out, two attempts raised, the third succeeded and
\* its result was returned
C19_Witness ==
    /\ t_pc = "done"
    /\ t_call.default
    /\ t_fate[1] /\ t_fate[2] /\ ~t_fate[3]
    /\ t_res.ok
    /\ Len(t_res.calls) = 3
    /\ t_res.val = ResultOf(3)

\* the mutating call each of click, fill and submit makes on the browsing context
ActionOf(name) ==
    CASE name = "click" -> "click"
      [] name = "fill" -> "fill"
      [] name = "submit" -> "locator.click"

\* "<OP>_ERROR: "
ErrorTagOf(name) ==
    CASE name = "click" -> T_CLICK_ERROR
      [] name = "fill" -> T_FILL_ERROR
      [] name = "submit" -> T_SUBMIT_ERROR

\* the positions of the calls of func in the trace of the last operation
Attempts(func) == {i \in 1..Len(out.calls) : out.calls[i] = func}

\* the i-th call of the last operation on the browsing context raised
Failed(i) == call.fate[i]

\* C20: with safe mode off (self.safe at the call), click, fill and submit begin with the wait for the
\* selector (at most 3 attempts); every attempt of the action (at most 3) comes
\* after all attempts of the wait and after one that succeeded; the markup is read
\* only after an attempt of the action succeeded; when all 3 attempts of the wait
\* fail, the action is never called, the markup is never read and the result is
\* "<OP>_ERROR: " followed by the message of the last failure.
C20_WaitThenActThenRead ==
    (~safe /\ Returned({"click", "fill", "submit"})) =>
        LET W == Attempts("wait_for_selector")
            A == Attempts(ActionOf(call.name))
            M == Attempts("inner_html")
        IN /\ ~out.raised
           /\ 1 \in W
           /\ Cardinality(W) <= 3
           /\ Cardinality(A) <= 3
           /\ \A a \in A : \A w \in W : w < a
           /\ \A a \in A : \E w \in W : ~Failed(w)
           /\ \A m \in M : \E a \in A : a < m /\ ~Failed(a)
           /\ (\A w \in W : Failed(w))
                => /\ W = {1, 2, 3}
                   /\ A = {}
                   /\ M = {}
                   /\ out.val = ErrorTagOf(call.name) \o ErrMsg(3)

\* C20 witness: fill waited three times, the third wait succeeded, the first
\* attempt to fill failed, the second succeeded, and the markup was returned
C20_Witness ==
    /\ ~safe
    /\ phase = "returned"
    /\ call.op = "fill"
    /\ out.calls = <<"wait_for_selector", "wait_for_selector", "wait_for_selector",
                     "fill", "fill", "inner_html">>
    /\ Failed(1) /\ Failed(2) /\ ~Failed(3) /\ Failed(4) /\ ~Failed(5) /\ ~Failed(6)
    /\ out.val = HTML

\* the crawl summary, as a function of the target, the network records and the options
InitCrawlOnly == IdleTools /\ IdleWrap /\ IdleReporter /\ IdleRetry /\ InitCrawl

NextCrawl == GenerateSafeCrawlSummary

SpecCrawl == InitCrawlOnly /\ [][NextCrawl]_vars

\* the host part urlparse gives for a URL
HostOf(u) == urlsplit(u).netloc

\* the requests that carry a URL
WithUrl == {r \in Elems(c_in.requests) : truthy(r.url)}

\* the requests of the two script-initiated resource types
XhrOrFetch == {r \in WithUrl : r.resource_type \in {"xhr", "fetch"}}

\* C15: with third-party inclusion disabled every URL of visited_urls and of
\* js_endpoints has the host of the target; with it enabled every request that
\* carries a URL is listed in visited_urls (without its fragment), and in
\* js_endpoints too when its resource type is xhr or fetch.
C15_SameOriginOnly ==
    c_pc = "done" =>
        IF c_in.include_third_party
        THEN /\ \A r \in WithUrl : canon(r.url) \in Elems(c_summary.visited_urls)
             /\ \A r \in XhrOrFetch : canon(r.url) \in Elems(c_summary.js_endpoints)
        ELSE \A u \in Elems(c_summary.visited_urls) \cup Elems(c_summary.js_endpoints) :
                 HostOf(u) = HostOf(c_in.target)

\* C15 witness: without third-party inclusion, a request to a host that begins
\* with the host of the target was left out, a request to the target was listed
C15_Witness ==
    /\ c_pc = "done"
    /\ ~c_in.include_third_party
    /\ c_summary.visited_urls # <<>>
    /\ \E r \in WithUrl :
          /\ HostOf(r.url) # HostOf(c_in.target)
          /\ startswith(HostOf(r.url), HostOf(c_in.target))
          /\ canon(r.url) \notin Elems(c_summary.visited_urls)

\* the records are one same-origin document request d, one same-origin XHR
\* request x and one cross-origin script request s, in any order, their URLs
\* without fragment, and third-party inclusion is disabled
Scenario(d, x, s) ==
    /\ c_pc = "done"
    /\ ~c_in.include_third_party
    /\ Len(c_in.requests) = 3
    /\ {d, x, s} = {1, 2, 3}
    /\ \A i \in 1..3 : truthy(c_in.requests[i].url)
                        /\ first_index(c_in.requests[i].url, "#") = 0
    /\ c_in.requests[d].resource_type = "document"
    /\ c_in.requests[x].resource_type = "xhr"
    /\ c_in.requests[s].resource_type = "script"
    /\ HostOf(c_in.requests[d].url) = HostOf(c_in.target)
    /\ HostOf(c_in.requests[x].url) = HostOf(c_in.target)
    /\ HostOf(c_in.requests[s].url) # HostOf(c_in.target)

\* C16 (as claimed): in that scenario visited_urls is exactly the document URL
\* and js_endpoints exactly the XHR URL.
C16_VisitedIsTheDocument ==
    \A d, x, s \in 1..3 :
        Scenario(d, x, s)
            => /\ c_summary.visited_urls = <<c_in.requests[d].url>>
               /\ c_summary.js_endpoints = <<c_in.requests[x].url>>

\* C16 (amended): in that scenario visited_urls holds exactly the document URL
\* and the XHR URL, and js_endpoints exactly the XHR URL.
C16_VisitedIsDocumentAndXhr ==
    \A d, x, s \in 1..3 :
        Scenario(d, x, s)
            => /\ Elems(c_summary.visited_urls)
                    = {c_in.requests[d].url, c_in.requests[x].url}
               /\ Len(c_summary.visited_urls) = 2
               /\ c_summary.js_endpoints = <<c_in.requests[x].url>>

\* C16 witness: the records of the repository's test
C16_Witness ==
    /\ c_pc = "done"
    /\ ~c_in.include_third_party
    /\ c_in.requests = TestRequests
    /\ HostOf(c_in.target) = HostOf(U_a_root)
    /\ c_summary.visited_urls = <<U_a_root, U_a_x>>
    /\ c_summary.js_endpoints = <<U_a_x>>

\* a URL up to its fragment: the text before the first "#"
WithoutFragment(u) ==
    LET h == first_index(u, "#") IN
    IF h > 0 THEN SubSeq(u, 1, h - 1) ELSE u

\* the request URLs the origin filter lets through
Kept(rs) ==
    {r.url : r \in {x \in rs : c_in.include_third_party
                                  \/ HostOf(x.url) = HostOf(c_in.target)}}

\* a list of texts in strictly ascending order: sorted and without duplicates
Ascending(list) == \A i, j \in 1..Len(list) : i < j => str_lt(list[i], list[j])

\* C17 (as claimed): visited_urls and js_endpoints are sorted and duplicate-free,
\* no entry has a fragment, and the entries are the request URLs the origin
\* filter lets through, each up to its fragment, so that request URLs that are
\* identical except for their fragment give one entry.
C17_SortedDistinctFragmentFree ==
    c_pc = "done" =>
        /\ Ascending(c_summary.visited_urls)
        /\ Ascending(c_summary.js_endpoints)
        /\ \A u \in Elems(c_summary.visited_urls) \cup Elems(c_summary.js_endpoints) :
              first_index(u, "#") = 0
        /\ Elems(c_summary.visited_urls) = {WithoutFragment(u) : u \in Kept(WithUrl)}
        /\ Elems(c_summary.js_endpoints) = {WithoutFragment(u) : u \in Kept(XhrOrFetch)}

\* the header names of all response records, with their positions
HeaderOccurrences ==
    UNION {{<<i, j>> : j \in 1..Len(c_in.responses[i].headers)} :
              i \in 1..Len(c_in.responses)}

\* how often a lower-cased name occurs over all response records
Occurrences(name) ==
    Cardinality({p \in HeaderOccurrences :
                    lower(c_in.responses[p[1]].headers[p[2]]) = name})

\* the lower-cased names that occur
FoldedNames == {lower(c_in.responses[p[1]].headers[p[2]]) : p \in HeaderOccurrences}

\* C18: every pair of common_response_headers is a lower-cased name with the
\* number of its occurrences, in any case, over all response records; no name
\* is listed twice; the pairs are in non-increasing order of count; there are
\* at most 15, all names when these are at most 15; and no name left out
\* occurs more often than a listed one.
C18_HeaderCounts ==
    c_pc = "done" =>
        LET common == c_summary.common_response_headers
            listed == {common[i].name : i \in 1..Len(common)}
        IN /\ Len(common) <= 15
           /\ Len(common) = IF Cardinality(FoldedNames) < 15
                             THEN Cardinality(FoldedNames) ELSE 15
           /\ Cardinality(listed) = Len(common)
           /\ listed \subseteq FoldedNames
           /\ \A i \in 1..Len(common) : common[i].count = Occurrences(common[i].name)
           /\ \A i, j \in 1..Len(common) : i < j => common[i].count >= common[j].count
           /\ \A n \in FoldedNames \ listed :
                 \A i \in 1..Len(common) : Occurrences(n) <= common[i].count

\* C18 witness: Content-Type and content-type, in two records, were counted as
\* one name with count 2, listed first of 15 pairs, and names were left out
C18_Witness ==
    /\ c_pc = "done"
    /\ \E i, j \in 1..Len(c_in.responses) :
          /\ i # j
          /\ H_Content_Type \in Elems(c_in.responses[i].headers)
          /\ H_content_type \in Elems(c_in.responses[j].headers)
    /\ Len(c_summary.common_response_headers) = 15
    /\ c_summary.common_response_headers[1] = [name |-> H_content_type, count |-> 2]
    /\ Cardinality(FoldedNames) > 15

\* C21 (as claimed): after any python_interpreter call, whether it returned a
\* refusal, the captured output or PYTHON_ERROR, or raised while reading the
\* browsing context, sys.stdout is the stream it was before the call: the call
\* does not leave it pointing at its buffer, so it stays the stream of the process.
C21_StdoutRestored ==
    /\ Returned({"python_interpreter"}) => ~out.redirected
    /\ stdout = "orig"

=============================================================================
